---------------------------- MODULE Spec2Model ----------------------------
(***************************************************************************)
(* Model of owls, the program python main.py: the command of              *)
(* src/src/cli.py with its configuration resolution (src/src/cli.py,       *)
(* src/src/config.py), called by src/main.py at line 9.                    *)
(*                                                                         *)
(* Python values are records [t, n, e, s, d]: t is the Python type name,   *)
(* n the numeric payload (bool: 0/1, int: the integer, float: the          *)
(* mantissa of n * 10^(-e)), s the text payload as a sequence of           *)
(* one-character strings and d the mapping of a dict.  Dotted key paths    *)
(* are the sequence of their components ("openai.model" is                 *)
(* <<"openai", "model">>).                                                 *)
(*                                                                         *)
(* Two libraries are outside the repository and are modelled by their      *)
(* contract.  click runs the option callbacks while parsing and stops at   *)
(* the first BadParameter; a command called as main(), as main.py calls    *)
(* it, turns the BadParameter into exit code 2 and leaves the process with *)
(* exit code 0 when the command body returns.  main.py therefore never     *)
(* gets the CLIConfig back: the debate session of its lines 18-240 (the    *)
(* autogen group chat, the Markdown transcript) is run by no input, and no *)
(* action of this model stands for it.  yaml yields the parsed document.   *)
(*                                                                         *)
(* Not explored: click's --help, --version and usage errors other than     *)
(* BadParameter, non-ASCII text in environment values, numbers of more     *)
(* than nine significant digits, the sign of a float zero.                 *)
(***************************************************************************)
EXTENDS Integers, Sequences, FiniteSets, TLC

(***************************************************************************)
(* Bounds of the explored inputs.                                          *)
(***************************************************************************)
\* at most this many options / environment variables / YAML leaves are supplied
MaxSupplied == 3

(***************************************************************************)
(* Python values.  A float is n * 10^(-e) with n not divisible by ten;     *)
(* inf, -inf and nan carry their name in s.                                *)
(***************************************************************************)
PyNone == [t |-> "NoneType", n |-> 0, e |-> 0, s |-> <<>>, d |-> <<>>]
PyBool(b) == [t |-> "bool", n |-> IF b THEN 1 ELSE 0, e |-> 0, s |-> <<>>, d |-> <<>>]
PyInt(i) == [t |-> "int", n |-> i, e |-> 0, s |-> <<>>, d |-> <<>>]
PyStr(cs) == [t |-> "str", n |-> 0, e |-> 0, s |-> cs, d |-> <<>>]
PyDict(f) == [t |-> "dict", n |-> 0, e |-> 0, s |-> <<>>, d |-> f]

RECURSIVE NumDigits(_)
NumDigits(m) == IF m < 10 THEN 1 ELSE 1 + NumDigits(m \div 10)
Abs(m) == IF m < 0 THEN 0 - m ELSE m
T_inf == <<"i", "n", "f">>
T_infinity == <<"i", "n", "f", "i", "n", "i", "t", "y">>
T_nan == <<"n", "a", "n">>
PyInf(negative) ==
    [t |-> "float", n |-> IF negative THEN -1 ELSE 1, e |-> 0, s |-> T_inf, d |-> <<>>]
PyNaN == [t |-> "float", n |-> 0, e |-> 0, s |-> T_nan, d |-> <<>>]
RECURSIVE Pow10(_)
Pow10(k) == IF k = 0 THEN 1 ELSE 10 * Pow10(k - 1)

\* Arithmetic beyond the machine word, for the rounding of float(): a
\* natural number as its limbs in base 10^4, least significant first.
RECURSIVE Limbs(_)
Limbs(n) == IF n < 10000 THEN <<n>> ELSE <<n % 10000>> \o Limbs(n \div 10000)
RECURSIVE LimbsValue(_)
LimbsValue(ls) == IF ls = <<>> THEN 0 ELSE ls[1] + 10000 * LimbsValue(Tail(ls))
Term(a, b, j, i) ==
    IF j <= Len(a) /\ i - j + 1 \in DOMAIN b THEN a[j] * b[i - j + 1] ELSE 0
\* column i of the long multiplication of a by b, a of at most three limbs
Column(a, b, i, carry) ==
    Term(a, b, 1, i) + Term(a, b, 2, i) + Term(a, b, 3, i) + carry
\* the limbs i, i+1, ... of a * b given the carry into limb i
RECURSIVE Product(_, _, _, _)
Carried(a, b, i, column) ==
    <<column % 10000>> \o Product(a, b, i + 1, column \div 10000)
Product(a, b, i, carry) ==
    IF i > Len(a) + Len(b) THEN <<>> ELSE Carried(a, b, i, Column(a, b, i, carry))
\* the number whose limbs are those of ls from limb 8 on: floor(ls / 10^28)
Scaled(ls) == LimbsValue(SubSeq(ls, 8, Len(ls)))
\* floor(n * k / 10^28) for a constant k given by its limbs
ScaledFloor(n, k) == Scaled(Product(Limbs(n), k, 1, 0))

\* The doubles below 2.2e-308 are the multiples of 2^-1074 (4.94e-324).
\* HalfUlp is 2^-1075 in units of 10^-352, UlpsPerUnit the number of
\* multiples in 10^-324, in units of 10^-28.
HalfUlp == <<9643, 2843, 2088, 2327, 9206, 2822, 4703, 2>>
UlpsPerUnit == <<3467, 2495, 1835, 3106, 3307, 225, 2024>>
\* the leading nine digits of the largest double, 1.7976931348623157e308
MaxFinite == 179769313

\* the multiple of 2^-1074 nearest to m * 10^(-324 - t), m > 0, from an
\* estimate k that is not above it
RECURSIVE UlpsAbove(_, _, _)
UlpsAbove(m, t, k) ==
    IF m > ScaledFloor((2 * k + 1) * Pow10(t), HalfUlp)
    THEN UlpsAbove(m, t, k + 1)
    ELSE k
Ulps(m, t) == UlpsAbove(m, t, ScaledFloor(m, UlpsPerUnit) \div Pow10(t))
\* repr of the double k * 2^-1074: the decimal of fewest digits that float()
\* rounds to it, the nearest one among several, as n * 10^(p - 324).  lo and
\* hi are the ends of the interval that rounds to it, mid twice its value,
\* all in units of 10^-324; P holds the powers of ten with a multiple inside
Largest(P) == CHOOSE p \in P : \A q \in P : q <= p
Coarsest(hi, mid, P) ==
    IF P = {} THEN [n |-> (mid + 1) \div 2, p |-> 0]
    ELSE [n |-> hi \div Pow10(Largest(P)), p |-> Largest(P)]
Between(lo, hi, mid) ==
    Coarsest(hi, mid, {p \in 1..9 : (hi \div Pow10(p)) * Pow10(p) > lo})
Shortest(k) ==
    Between(ScaledFloor(2 * k - 1, HalfUlp), ScaledFloor(2 * k + 1, HalfUlp),
            ScaledFloor(4 * k, HalfUlp))
Signed10(negative, repr) ==
    [t |-> "float",
     n |-> IF negative THEN 0 - repr.n ELSE repr.n,
     e |-> 324 - repr.p, s |-> <<>>, d |-> <<>>]
PyZero == [t |-> "float", n |-> 0, e |-> 0, s |-> <<>>, d |-> <<>>]
Denormal(negative, k) == IF k = 0 THEN PyZero ELSE Signed10(negative, Shortest(k))

\* the float nearest to m * 10^(-scale), by its repr: trailing zeros of m move
\* into the exponent; a magnitude that rounds beyond the largest double is
\* inf; a decimal of at most nine digits down to the unit 10^-323 is its own
\* repr; below that unit the nearest multiple of 2^-1074 decides
RECURSIVE Decimal(_, _)
Decimal(m, scale) ==
    IF m = 0 THEN PyZero
    ELSE IF m % 10 = 0 THEN Decimal(m \div 10, scale - 1)
    ELSE IF NumDigits(Abs(m)) - 1 - scale > 308 THEN PyInf(m < 0)
    ELSE IF /\ NumDigits(Abs(m)) - 1 - scale = 308
            /\ Abs(m) * Pow10(9 - NumDigits(Abs(m))) > MaxFinite
         THEN PyInf(m < 0)
    ELSE IF scale < 324 THEN [t |-> "float", n |-> m, e |-> scale, s |-> <<>>, d |-> <<>>]
    ELSE IF scale > 332 THEN PyZero
    ELSE Denormal(m < 0, Ulps(Abs(m), scale - 324))
\* a float given in tenths (0.7 is PyFloat(7))
PyFloat(tenths) == Decimal(tenths, 1)

\* isinstance(v, int): bool is a subclass of int
IsInstanceInt(v) == v.t \in {"int", "bool"}
\* isinstance(v, (int, float))
IsInstanceNumber(v) == v.t \in {"int", "bool", "float"}
\* v < bound and v > bound for a number v and an integer bound in 0..2;
\* every comparison with nan is false
Below(v, bound) ==
    IF v.s = T_nan THEN FALSE
    ELSE IF v.s = T_inf THEN v.n < 0
    ELSE IF v.n <= 0 THEN v.n < 0 \/ bound > 0
    ELSE IF v.e <= 0 THEN v.e = 0 /\ v.n < bound
    ELSE bound > 0 /\ (v.e > 9 \/ v.n < bound * Pow10(v.e))
Above(v, bound) ==
    IF v.s = T_nan THEN FALSE
    ELSE IF v.s = T_inf THEN v.n > 0
    ELSE IF v.n <= 0 THEN FALSE
    ELSE IF v.e <= 0 THEN v.e < 0 \/ v.n > bound
    ELSE bound = 0 \/ (v.e <= 9 /\ v.n > bound * Pow10(v.e))
\* truth value of a Python object (`if not x`)
Truthy(v) ==
    CASE v.t = "NoneType" -> FALSE
      [] v.t \in {"bool", "int"} -> v.n # 0
      [] v.t = "float" -> v.n # 0 \/ v.s # <<>>
      [] v.t = "str" -> v.s # <<>>
      [] OTHER -> DOMAIN v.d # {}

(***************************************************************************)
(* Text constants, spelled as character sequences.                         *)
(***************************************************************************)
T_gpt4 == <<"g", "p", "t", "-", "4">>
T_gpt35turbo == <<"g", "p", "t", "-", "3", ".", "5", "-", "t", "u", "r", "b", "o">>
T_gpt4turbo == <<"g", "p", "t", "-", "4", "-", "t", "u", "r", "b", "o">>
T_gpt4o == <<"g", "p", "t", "-", "4", "o">>
T_gpt5 == <<"g", "p", "t", "-", "5">>
T_ja == <<"j", "a">>
T_en == <<"e", "n">>
T_zh == <<"z", "h">>
T_round_robin == <<"r", "o", "u", "n", "d", "_", "r", "o", "b", "i", "n">>
T_random == <<"r", "a", "n", "d", "o", "m">>
T_true == <<"t", "r", "u", "e">>
T_yes == <<"y", "e", "s">>
T_on == <<"o", "n">>
T_false == <<"f", "a", "l", "s", "e">>
T_no == <<"n", "o">>
T_off == <<"o", "f", "f">>

(***************************************************************************)
(* ConfigLoader._convert_type: coercion of environment text.  int() and    *)
(* float() are modelled on ASCII text: surrounding whitespace is stripped, *)
(* single underscores may separate digits, float() also takes a point, an  *)
(* exponent and inf, infinity, nan in any case.  Numbers of up to nine     *)
(* significant digits are representable.                                   *)
(***************************************************************************)
Digits == {"0", "1", "2", "3", "4", "5", "6", "7", "8", "9"}
DigitValue(c) ==
    CASE c = "0" -> 0 [] c = "1" -> 1 [] c = "2" -> 2 [] c = "3" -> 3
      [] c = "4" -> 4 [] c = "5" -> 5 [] c = "6" -> 6 [] c = "7" -> 7
      [] c = "8" -> 8 [] c = "9" -> 9

\* str.lower() on one ASCII character
LowerChar(c) ==
    CASE c = "A" -> "a" [] c = "B" -> "b" [] c = "C" -> "c" [] c = "D" -> "d"
      [] c = "E" -> "e" [] c = "F" -> "f" [] c = "G" -> "g" [] c = "H" -> "h"
      [] c = "I" -> "i" [] c = "J" -> "j" [] c = "K" -> "k" [] c = "L" -> "l"
      [] c = "M" -> "m" [] c = "N" -> "n" [] c = "O" -> "o" [] c = "P" -> "p"
      [] c = "Q" -> "q" [] c = "R" -> "r" [] c = "S" -> "s" [] c = "T" -> "t"
      [] c = "U" -> "u" [] c = "V" -> "v" [] c = "W" -> "w" [] c = "X" -> "x"
      [] c = "Y" -> "y" [] c = "Z" -> "z"
      [] OTHER -> c
Lower(cs) == [i \in DOMAIN cs |-> LowerChar(cs[i])]

\* the whitespace int() and float() strip from both ends
Whitespace == {" ", "\t", "\n", "", "\f", "\r"}
RECURSIVE LStrip(_)
LStrip(cs) == IF cs # <<>> /\ cs[1] \in Whitespace THEN LStrip(Tail(cs)) ELSE cs
RECURSIVE RStrip(_)
RStrip(cs) ==
    IF cs # <<>> /\ cs[Len(cs)] \in Whitespace
    THEN RStrip(SubSeq(cs, 1, Len(cs) - 1))
    ELSE cs
Strip(cs) == RStrip(LStrip(cs))

\* digits, single underscores allowed between them
DigitPart(cs) ==
    /\ cs # <<>>
    /\ \A i \in DOMAIN cs : cs[i] \in Digits \cup {"_"}
    /\ cs[1] \in Digits
    /\ cs[Len(cs)] \in Digits
    /\ \A i \in 1..(Len(cs) - 1) : ~(cs[i] = "_" /\ cs[i + 1] = "_")
DigitsOf(cs) == SelectSeq(cs, LAMBDA c : c \in Digits)
RECURSIVE DecimalValue(_)
DecimalValue(cs) ==
    IF cs = <<>> THEN 0
    ELSE DecimalValue(SubSeq(cs, 1, Len(cs) - 1)) * 10 + DigitValue(cs[Len(cs)])

HasSign(cs) == cs # <<>> /\ cs[1] \in {"+", "-"}
Unsigned(cs) == IF HasSign(cs) THEN Tail(cs) ELSE cs
Signed(cs, k) == IF HasSign(cs) /\ cs[1] = "-" THEN 0 - k ELSE k

\* int(value) succeeds
IntParses(cs) == DigitPart(Unsigned(Strip(cs)))
IntOf(cs) == Signed(Strip(cs), DecimalValue(DigitsOf(Unsigned(Strip(cs)))))

\* float(value): the text without whitespace and sign, in lower case
Body(cs) == Lower(Unsigned(Strip(cs)))
DotAt(cs) == {i \in DOMAIN cs : cs[i] = "."}
ExpAt(cs) == {i \in DOMAIN cs : cs[i] = "e"}
First(S) == CHOOSE i \in S : \A j \in S : i <= j
Mantissa(u) == IF ExpAt(u) = {} THEN u ELSE SubSeq(u, 1, First(ExpAt(u)) - 1)
Exponent(u) == IF ExpAt(u) = {} THEN <<>> ELSE SubSeq(u, First(ExpAt(u)) + 1, Len(u))
IntegerDigits(m) ==
    IF DotAt(m) = {} THEN m ELSE SubSeq(m, 1, First(DotAt(m)) - 1)
FractionDigits(m) ==
    IF DotAt(m) = {} THEN <<>> ELSE SubSeq(m, First(DotAt(m)) + 1, Len(m))
MantissaParses(m) ==
    /\ Cardinality(DotAt(m)) <= 1
    /\ IntegerDigits(m) = <<>> \/ DigitPart(IntegerDigits(m))
    /\ FractionDigits(m) = <<>> \/ DigitPart(FractionDigits(m))
    /\ IntegerDigits(m) # <<>> \/ FractionDigits(m) # <<>>
FloatParses(cs) ==
    \/ Body(cs) \in {T_inf, T_infinity, T_nan}
    \/ /\ Cardinality(ExpAt(Body(cs))) <= 1
       /\ MantissaParses(Mantissa(Body(cs)))
       /\ ExpAt(Body(cs)) = {} \/ DigitPart(Unsigned(Exponent(Body(cs))))
FloatOf(cs) ==
    LET u == Body(cs)
        digits == DigitsOf(IntegerDigits(Mantissa(u)))
                      \o DigitsOf(FractionDigits(Mantissa(u)))
        x == Signed(Exponent(u), DecimalValue(DigitsOf(Unsigned(Exponent(u)))))
    IN IF u = T_nan THEN PyNaN
       ELSE IF u \in {T_inf, T_infinity} THEN PyInf(Signed(Strip(cs), 1) < 0)
       ELSE Decimal(Signed(Strip(cs), DecimalValue(digits)),
                    Len(DigitsOf(FractionDigits(Mantissa(u)))) - x)

\* _convert_type attempting the integer parse before the boolean tokens
_convert_type_int_first(value) ==
    IF IntParses(value) THEN PyInt(IntOf(value))
    ELSE IF Lower(value) \in {T_true, T_yes, T_on, <<"1">>} THEN PyBool(TRUE)
    ELSE IF Lower(value) \in {T_false, T_no, T_off, <<"0">>} THEN PyBool(FALSE)
    ELSE IF FloatParses(value) THEN FloatOf(value)
    ELSE PyStr(value)

_convert_type(value) ==
    IF Lower(value) \in {T_true, T_yes, T_on, <<"1">>} THEN PyBool(TRUE)
    ELSE IF Lower(value) \in {T_false, T_no, T_off, <<"0">>} THEN PyBool(FALSE)
    ELSE IF IntParses(value) THEN PyInt(IntOf(value))
    ELSE IF FloatParses(value) THEN FloatOf(value)
    ELSE PyStr(value)

(***************************************************************************)
(* Configuration keys.                                                     *)
(***************************************************************************)
K_api_key == <<"openai", "api_key">>
K_model == <<"openai", "model">>
K_temperature == <<"openai", "temperature">>
K_max_tokens == <<"openai", "max_tokens">>
K_max_rounds == <<"debate", "max_rounds">>
K_speaker_selection == <<"debate", "speaker_selection">>
K_language == <<"project", "language">>
K_output_directory == <<"logging", "output", "directory">>
K_console_enabled == <<"logging", "console", "enabled">>
Keys == {K_api_key, K_model, K_temperature, K_max_tokens, K_max_rounds,
         K_speaker_selection, K_language, K_output_directory,
         K_console_enabled}

\* key_path.upper(), component by component
Upper(w) ==
    CASE w = "openai" -> "OPENAI" [] w = "api_key" -> "API_KEY"
      [] w = "model" -> "MODEL" [] w = "temperature" -> "TEMPERATURE"
      [] w = "max_tokens" -> "MAX_TOKENS" [] w = "debate" -> "DEBATE"
      [] w = "max_rounds" -> "MAX_ROUNDS"
      [] w = "speaker_selection" -> "SPEAKER_SELECTION"
      [] w = "project" -> "PROJECT" [] w = "language" -> "LANGUAGE"
      [] w = "logging" -> "LOGGING" [] w = "console" -> "CONSOLE"
      [] w = "enabled" -> "ENABLED" [] w = "output" -> "OUTPUT"
      [] w = "directory" -> "DIRECTORY"
\* key_path.upper().replace(".", "_"): the components of the variable's name
EnvKey(key_path) == [i \in DOMAIN key_path |-> Upper(key_path[i])]

cli_mappings ==
    (K_api_key :> "api_key") @@ (K_model :> "model")
    @@ (K_temperature :> "temperature") @@ (K_max_tokens :> "max_tokens")
    @@ (K_max_rounds :> "rounds") @@ (K_language :> "language")
    @@ (K_output_directory :> "output_dir")
    @@ (K_console_enabled :> "verbose")

valid_models == {T_gpt4, T_gpt35turbo, T_gpt4turbo, T_gpt4o, T_gpt5}
valid_languages == {T_ja, T_en, T_zh}


(***************************************************************************)
(* Configuration resolution: CLI > environment > YAML > default.           *)
(* args is the cli_args dict (a function from option names to values), env *)
(* is os.environ (a function from variable names to texts) and data is the *)
(* parsed YAML document (a dict value).                                    *)
(***************************************************************************)
_get_cli_value(args, key_path) ==
    IF key_path \in DOMAIN cli_mappings /\ cli_mappings[key_path] \in DOMAIN args
    THEN args[cli_mappings[key_path]]
    ELSE PyNone

_get_env_value(env, key_path) ==
    IF EnvKey(key_path) \in DOMAIN env
    THEN _convert_type(env[EnvKey(key_path)])
    ELSE PyNone

RECURSIVE _get_yaml_value(_, _)
_get_yaml_value(current, keys) ==
    IF keys = <<>> THEN current
    ELSE IF current.t = "dict" /\ Head(keys) \in DOMAIN current.d
         THEN _get_yaml_value(current.d[Head(keys)], Tail(keys))
         ELSE PyNone

ConfigLoader_get(env, data, key_path, default) ==
    IF _get_env_value(env, key_path) # PyNone
    THEN _get_env_value(env, key_path)
    ELSE IF _get_yaml_value(data, key_path) # PyNone
         THEN _get_yaml_value(data, key_path)
         ELSE default

CLIConfig_get(args, env, data, key_path, default) ==
    IF _get_cli_value(args, key_path) # PyNone
    THEN _get_cli_value(args, key_path)
    ELSE ConfigLoader_get(env, data, key_path, default)

\* CLIConfig.get_openai_config
get_openai_config(args, env, data) ==
    [api_key |-> CLIConfig_get(args, env, data, K_api_key, PyNone),
     model |-> CLIConfig_get(args, env, data, K_model, PyStr(T_gpt4)),
     temperature |-> CLIConfig_get(args, env, data, K_temperature, PyFloat(7)),
     max_tokens |-> CLIConfig_get(args, env, data, K_max_tokens, PyInt(2000))]

\* ConfigLoader.get_debate_config (the agents table is not modelled)
ConfigLoader_get_debate_config(env, data) ==
    [max_rounds |-> ConfigLoader_get(env, data, K_max_rounds, PyInt(10)),
     speaker_selection |->
         ConfigLoader_get(env, data, K_speaker_selection, PyStr(T_round_robin))]

\* CLIConfig.get_debate_config: the loader's group, max_rounds overridden
get_debate_config(args, env, data) ==
    LET config == ConfigLoader_get_debate_config(env, data)
        rounds == CLIConfig_get(args, env, data, K_max_rounds, PyNone)
    IN IF rounds # PyNone THEN [config EXCEPT !.max_rounds = rounds] ELSE config

\* CLIConfig.get_logging_config, the output.directory and console.enabled
\* entries
get_logging_config(args, env, data) ==
    LET directory == ConfigLoader_get(env, data, K_output_directory, PyStr(<<".">>))
        output_dir == CLIConfig_get(args, env, data, K_output_directory, PyNone)
        enabled == ConfigLoader_get(env, data, K_console_enabled, PyBool(TRUE))
        verbose == CLIConfig_get(args, env, data, K_console_enabled, PyNone)
    IN [output_directory |-> IF output_dir # PyNone THEN output_dir ELSE directory,
        console_enabled |-> IF verbose # PyNone THEN verbose ELSE enabled]

\* CLIConfig.get_project_config, the language entry (the loader's group has
\* no language entry; it exists only when some source sets it)
get_project_config(args, env, data) ==
    [language |-> CLIConfig_get(args, env, data, K_language, PyNone)]

(***************************************************************************)
(* CLIConfig.validate_config: the list of violated constraints, in the     *)
(* order the checks are made.                                              *)
(***************************************************************************)
SelectSeq2(seq, keep) ==
    LET F[i \in 0..Len(seq)] ==
            IF i = 0 THEN <<>>
            ELSE IF keep[i] THEN Append(F[i - 1], seq[i]) ELSE F[i - 1]
    IN F[Len(seq)]

ApiKeyBad(v) == ~Truthy(v)
ModelBad(v) == ~(v.t = "str" /\ v.s \in valid_models)
RoundsBad(v) == ~IsInstanceInt(v) \/ v.n < 1 \/ v.n > 100
TemperatureBad(v) == ~IsInstanceNumber(v) \/ Below(v, 0) \/ Above(v, 2)
MaxTokensBad(v) == ~IsInstanceInt(v) \/ v.n < 1 \/ v.n > 32000
LanguageBad(v) == ~(v.t = "str" /\ v.s \in valid_languages)

validate_config(args, env, data) ==
    SelectSeq2(
        <<"api_key", "model", "rounds", "temperature", "max_tokens", "language">>,
        <<ApiKeyBad(get_openai_config(args, env, data).api_key),
          ModelBad(get_openai_config(args, env, data).model),
          RoundsBad(CLIConfig_get(args, env, data, K_max_rounds, PyInt(10))),
          TemperatureBad(CLIConfig_get(args, env, data, K_temperature, PyFloat(7))),
          MaxTokensBad(CLIConfig_get(args, env, data, K_max_tokens, PyInt(2000))),
          LanguageBad(CLIConfig_get(args, env, data, K_language, PyStr(T_ja)))>>)

(***************************************************************************)
(* The click option callbacks: the options whose callback raises           *)
(* BadParameter for the values given on the command line.                  *)
(***************************************************************************)
validate_temperature(value) == value # PyNone /\ (Below(value, 0) \/ Above(value, 2))
validate_rounds(value) == value # PyNone /\ (value.n < 1 \/ value.n > 100)
validate_max_tokens(value) == value # PyNone /\ (value.n < 1 \/ value.n > 32000)
validate_language(value) == value # PyNone /\ value.s \notin valid_languages

BadParameters(options) ==
    {o \in {"rounds", "temperature", "max_tokens", "language"} :
        CASE o = "rounds" -> validate_rounds(options[o])
          [] o = "temperature" -> validate_temperature(options[o])
          [] o = "max_tokens" -> validate_max_tokens(options[o])
          [] o = "language" -> validate_language(options[o])}


(***************************************************************************)
(* Inputs: what the user may supply.  A slot is <<source, key path>>; the  *)
(* flags --verbose and --dry-run are CLI slots.                            *)
(***************************************************************************)
K_dry_run == <<"dry_run">>
K_topic == <<"topic">>
CliOptions == {"topic", "config", "api_key", "model", "rounds", "temperature",
               "max_tokens", "language", "output_dir", "verbose", "dry_run"}
OptionKey(o) ==
    CASE o = "api_key" -> K_api_key [] o = "model" -> K_model
      [] o = "rounds" -> K_max_rounds [] o = "temperature" -> K_temperature
      [] o = "max_tokens" -> K_max_tokens [] o = "language" -> K_language
      [] o = "output_dir" -> K_output_directory
      [] o = "verbose" -> K_console_enabled [] o = "dry_run" -> K_dry_run
      [] OTHER -> <<o>>

T_x == <<"x">>

CliChoices(k) ==
    CASE k = K_api_key -> {PyStr(<<"s", "k">>)}
      [] k = K_model -> {PyStr(T_gpt4o), PyStr(T_x)}
      [] k = K_max_rounds -> {PyInt(0), PyInt(9)}
      [] k = K_temperature -> {PyFloat(50), PyFloat(5)}
      [] k = K_max_tokens -> {PyInt(0)}
      [] k = K_language -> {PyStr(<<"f", "r">>)}
      [] k = K_output_directory -> {PyStr(<<"o">>)}
      [] k = K_console_enabled -> {PyBool(TRUE)}
      [] k = K_dry_run -> {PyBool(TRUE)}
      [] k = K_topic -> {PyStr(<<"T">>)}
\* environment texts, wrapped as str values
EnvChoices(k) ==
    CASE k = K_api_key -> {PyStr(<<"e", "k">>)}
      [] k = K_model -> {PyStr(T_x), PyStr(<<"N", "o">>)}
      [] k = K_temperature ->
            {PyStr(<<"5", ".", "0">>), PyStr(<<"1">>), PyStr(<<"2", ".", "0", "5">>),
             PyStr(<<"n", "a", "n">>), PyStr(<<"2", "e", "3", "0", "8">>),
             PyStr(<<"-", "1", "e", "-", "3", "2", "4">>)}
      [] k = K_max_tokens ->
            {PyStr(<<"0">>), PyStr(<<"1", "0", "0">>), PyStr(<<"1", "_", "0", "0", "0">>)}
      [] k = K_max_rounds ->
            {PyStr(<<"3">>), PyStr(<<"0">>), PyStr(<<" ", "4", "">>)}
      [] k = K_speaker_selection -> {PyStr(T_random)}
      [] k = K_language -> {PyStr(T_en)}
      [] k = K_output_directory -> {PyStr(<<"e">>)}
      [] k = K_console_enabled -> {PyStr(T_false), PyStr(<<"O", "N">>)}
YamlChoices(k) ==
    CASE k = K_api_key -> {PyStr(<<"y", "k">>)}
      [] k = K_model -> {PyStr(T_gpt5)}
      [] k = K_temperature -> {PyFloat(50)}
      [] k = K_max_tokens -> {PyInt(40000)}
      [] k = K_max_rounds -> {PyInt(2), PyInt(0)}
      [] k = K_speaker_selection -> {PyStr(T_random)}
      [] k = K_language -> {PyStr(<<"d", "e">>)}
      [] k = K_output_directory -> {PyStr(<<"y">>)}
      [] k = K_console_enabled -> {PyBool(FALSE)}

CliKeys == {K_api_key, K_model, K_max_rounds, K_temperature, K_max_tokens,
            K_language, K_output_directory, K_console_enabled, K_dry_run,
            K_topic}
\* the keys explored in the environment and the file: those the command
\* validates or echoes (cli.py lines 161-239) and debate.speaker_selection;
\* the other keys of config.py (project.name, project.constraints.*,
\* project.conditions.*, debate.agents, the remaining logging.* entries)
\* are used by main.py lines 18-118 alone
FileKeys == {K_api_key, K_model, K_temperature, K_max_tokens, K_max_rounds,
             K_speaker_selection, K_language, K_output_directory,
             K_console_enabled}
Slots == ({"cli"} \X CliKeys) \cup ({"env", "yaml"} \X FileKeys)
Choices(slot) ==
    CASE slot[1] = "cli" -> CliChoices(slot[2])
      [] slot[1] = "env" -> EnvChoices(slot[2])
      [] slot[1] = "yaml" -> YamlChoices(slot[2])

\* the sets of at most k slots out of U
RECURSIVE SlotSets(_, _)
SlotSets(k, U) ==
    IF k = 0 THEN {{}}
    ELSE SlotSets(k - 1, U) \cup {S \cup {x} : S \in SlotSets(k - 1, U), x \in U}
RECURSIVE Supplies(_)
Supplies(S) ==
    IF S = {} THEN {<<>>}
    ELSE LET x == CHOOSE y \in S : TRUE
         IN {(x :> v) @@ g : g \in Supplies(S \ {x}), v \in Choices(x)}

\* the options as click hands them to main(): None when omitted, False for
\* an omitted flag
Options(f) ==
    [o \in CliOptions |->
        IF <<"cli", OptionKey(o)>> \in DOMAIN f THEN f[<<"cli", OptionKey(o)>>]
        ELSE IF o \in {"verbose", "dry_run"} THEN PyBool(FALSE) ELSE PyNone]

Environ(f) ==
    LET ks == {k \in FileKeys : <<"env", k>> \in DOMAIN f}
    IN [name \in {EnvKey(k) : k \in ks} |->
           f[<<"env", CHOOSE k \in ks : EnvKey(k) = name>>].s]

IsPrefix(p, q) == Len(p) <= Len(q) /\ SubSeq(q, 1, Len(p)) = p
RECURSIVE YamlTree(_, _)
YamlTree(f, prefix) ==
    LET below == {k \in FileKeys : <<"yaml", k>> \in DOMAIN f /\ IsPrefix(prefix, k)}
    IN PyDict([h \in {k[Len(prefix) + 1] : k \in below} |->
                  IF <<"yaml", Append(prefix, h)>> \in DOMAIN f
                  THEN f[<<"yaml", Append(prefix, h)>>]
                  ELSE YamlTree(f, Append(prefix, h))])

(***************************************************************************)
(* CLIConfig.print_config_summary: the values it echoes.                   *)
(***************************************************************************)
print_config_summary(args, env, data, show_dry_run) ==
    [model |-> get_openai_config(args, env, data).model,
     api_key |-> PyBool(Truthy(get_openai_config(args, env, data).api_key)),
     temperature |-> get_openai_config(args, env, data).temperature,
     max_tokens |-> get_openai_config(args, env, data).max_tokens,
     max_rounds |-> get_debate_config(args, env, data).max_rounds,
     language |->
         IF get_project_config(args, env, data).language = PyNone
         THEN PyStr(T_ja)
         ELSE get_project_config(args, env, data).language,
     output_directory |-> get_logging_config(args, env, data).output_directory,
     console_enabled |->
         PyBool(Truthy(get_logging_config(args, env, data).console_enabled)),
     show_dry_run |-> show_dry_run]

(***************************************************************************)
(* State.  main.py lines 18-240, the debate session, follow the call of    *)
(* the command at line 9.  click calls sys.exit when the command body      *)
(* returns, and lines 14-16 pass the exit on, so no run gets past line 16: *)
(* the variables of the session keep the values they have before it.       *)
(***************************************************************************)
VARIABLES
    params,         \* the option values click parsed from the command line
    environ,        \* os.environ
    _config_data,   \* ConfigLoader._config_data, the parsed YAML document
    config_error,   \* whether ConfigLoader(config_path) raises ConfigError
    pc,             \* position of main.py
    cli_args,       \* CLIConfig.cli_args
    reported,       \* the errors the program writes to the user-visible output
    summary,        \* what print_config_summary echoed, <<>> before it ran
    exit_code,      \* the process exit code, -1 while running
    uncaught,       \* the exception that ended the process, "" when none did
    messages,       \* groupchat.messages
    calls,          \* generate_reply calls made
    file,           \* content of the transcript file, <<>> when none exists
    caught,         \* what the except clause of line 195 caught, "" when nothing
    finalized       \* calls of finalize_markdown_file

vars == <<params, environ, _config_data, config_error, pc, cli_args, reported,
          summary, exit_code, uncaught, messages, calls, file, caught,
          finalized>>

inputs == <<params, environ, _config_data, config_error>>
session == <<uncaught, messages, calls, file, caught, finalized>>

\* python main.py: the program's first state, for at most MaxSupplied values
\* supplied; an unreadable configuration file is explored when no file value
\* is supplied
Init ==
    /\ \E S \in SlotSets(MaxSupplied, Slots) : \E f \in Supplies(S) :
          /\ params = Options(f)
          /\ environ = Environ(f)
          /\ _config_data = YamlTree(f, <<>>)
    /\ config_error \in BOOLEAN
    /\ config_error => _config_data = PyDict(<<>>)
    /\ pc = "start"
    /\ cli_args = <<>>
    /\ reported = <<>>
    /\ summary = <<>>
    /\ exit_code = -1
    /\ uncaught = ""
    /\ messages = <<>>
    /\ calls = 0
    /\ file = <<>>
    /\ caught = ""
    /\ finalized = 0

(***************************************************************************)
(* main.py lines 8-16: the call of cli.main, a click command, as main(),   *)
(* that is in click's standalone mode.  click runs the option callbacks    *)
(* while parsing and turns the first BadParameter into exit code 2; then   *)
(* the command body runs: CLIConfig(cli_args) loads the configuration file *)
(* (exit 1 on ConfigError), --dry-run prints the summary and returns,      *)
(* otherwise validate_config decides between exit 1 and the summary.  When *)
(* the body returns click ends the process with exit code 0; lines 14-16   *)
(* pass every exit code on.                                                *)
(***************************************************************************)
cli_main ==
    /\ pc = "start"
    /\ \/ /\ BadParameters(params) # {}
          /\ \E o \in BadParameters(params) : reported' = <<o>>
          /\ exit_code' = 2
          /\ UNCHANGED <<cli_args, summary>>
       \/ /\ BadParameters(params) = {}
          /\ cli_args' = params
          /\ IF config_error
             THEN /\ reported' = <<"config_file">>
                  /\ exit_code' = 1
                  /\ UNCHANGED summary
             ELSE IF Truthy(params["dry_run"])
             THEN /\ summary' = print_config_summary(params, environ, _config_data, TRUE)
                  /\ exit_code' = 0
                  /\ UNCHANGED reported
             ELSE IF validate_config(params, environ, _config_data) # <<>>
             THEN /\ reported' = validate_config(params, environ, _config_data)
                  /\ exit_code' = 1
                  /\ UNCHANGED summary
             ELSE /\ summary' = print_config_summary(params, environ, _config_data, FALSE)
                  /\ exit_code' = 0
                  /\ UNCHANGED reported
    /\ pc' = "exited"
    /\ UNCHANGED <<inputs, session>>

(***************************************************************************)
(* The program.  The command never returns to main.py: every run of        *)
(* python main.py ends inside cli_main.                                    *)
(***************************************************************************)
Next == cli_main

Spec == Init /\ [][Next]_vars


(***************************************************************************)
(* Vocabulary of the properties.                                           *)
(***************************************************************************)
\* the user gave the option on the command line (a flag is True only then)
Supplied(o) ==
    IF o \in {"verbose", "dry_run"} THEN params[o] = PyBool(TRUE)
    ELSE params[o] # PyNone
CliSet(k) == k \in DOMAIN cli_mappings /\ Supplied(cli_mappings[k])
EnvSet(k) == EnvKey(k) \in DOMAIN environ
YamlSet(k) == _get_yaml_value(_config_data, k) # PyNone
\* the value the precedence CLI > environment > YAML > default selects
Winner(k, default) ==
    CASE CliSet(k) -> params[cli_mappings[k]]
      [] ~CliSet(k) /\ EnvSet(k) -> _convert_type(environ[EnvKey(k)])
      [] ~CliSet(k) /\ ~EnvSet(k) /\ YamlSet(k) -> _get_yaml_value(_config_data, k)
      [] OTHER -> default

Defaults == {PyNone, PyStr(T_gpt4), PyFloat(7), PyInt(2000), PyInt(10),
             PyStr(T_round_robin), PyStr(T_ja), PyStr(<<".">>), PyBool(TRUE)}

InRange(v, lo, hi) == lo <= v /\ v <= hi
\* the constraints the effective configuration violates
Violations ==
    {c \in {"api_key", "model", "rounds", "temperature", "max_tokens", "language"} :
        CASE c = "api_key" -> ~Truthy(Winner(K_api_key, PyNone))
          [] c = "model" ->
                LET v == Winner(K_model, PyStr(T_gpt4))
                IN v.t # "str" \/ v.s \notin valid_models
          [] c = "rounds" ->
                LET v == Winner(K_max_rounds, PyInt(10))
                IN v.t \notin {"int", "bool"} \/ ~InRange(v.n, 1, 100)
          [] c = "temperature" ->
                LET v == Winner(K_temperature, PyFloat(7))
                IN \/ v.t \notin {"int", "bool", "float"}
                   \/ v.s = T_nan
                   \/ Below(v, 0)
                   \/ Above(v, 2)
          [] c = "max_tokens" ->
                LET v == Winner(K_max_tokens, PyInt(2000))
                IN v.t \notin {"int", "bool"} \/ ~InRange(v.n, 1, 32000)
          [] c = "language" ->
                LET v == Winner(K_language, PyStr(T_ja))
                IN v.t # "str" \/ v.s \notin valid_languages}
ValidConfiguration == Violations = {}

Range(seq) == {seq[i] : i \in DOMAIN seq}
DryRun == Truthy(params["dry_run"])
SessionStarted == file # <<>> \/ calls > 0 \/ messages # <<>>
SummaryPrinted == summary # <<>>
\* a run that is no dry run, has a valid configuration and ended with 0
FullRun ==
    pc = "exited" /\ exit_code = 0 /\ ~DryRun /\ ~config_error /\ ValidConfiguration
\* the turn blocks of a transcript, as the speakers of its turn headings
\* (main.py line 144), in file order; the file is a sequence of pieces
\* [k, who], k the kind of line and who the speaker of a turn heading
Speakers(seq) ==
    LET F[i \in 0..Len(seq)] ==
            IF i = 0 THEN <<>>
            ELSE IF seq[i].k = "turn" THEN Append(F[i - 1], seq[i].who) ELSE F[i - 1]
    IN F[Len(seq)]
\* main.py lines 86-91: the agents of the group chat, in the order of line 87
Roster == <<"Pro", "Con", "Mediator">>
RoundRobin(speakers) ==
    \A i \in DOMAIN speakers : speakers[i] = Roster[((i - 1) % Len(Roster)) + 1]

(***************************************************************************)
(* C1.  For every key and every combination of sources, the value          *)
(* CLIConfig.get returns is the value of the command line if the user set  *)
(* one there, else the environment value, else the YAML value, else the    *)
(* default; the summary the program prints and the temperature it          *)
(* validates are these values.  (The sources never change during a run:    *)
(* the resolution is compared on the first state of each run.)             *)
(***************************************************************************)
C1_Precedence ==
    /\ pc = "start" =>
          \A k \in Keys : \A default \in Defaults :
              CLIConfig_get(params, environ, _config_data, k, default)
                  = Winner(k, default)
    /\ SummaryPrinted =>
          /\ summary.api_key = PyBool(Truthy(Winner(K_api_key, PyNone)))
          /\ summary.model = Winner(K_model, PyStr(T_gpt4))
          /\ summary.temperature = Winner(K_temperature, PyFloat(7))
          /\ summary.max_tokens = Winner(K_max_tokens, PyInt(2000))
          /\ summary.max_rounds = Winner(K_max_rounds, PyInt(10))
          /\ summary.language = Winner(K_language, PyStr(T_ja))
          /\ summary.output_directory = Winner(K_output_directory, PyStr(<<".">>))
          /\ summary.console_enabled
                = PyBool(Truthy(Winner(K_console_enabled, PyBool(TRUE))))
    /\ (pc = "exited" /\ BadParameters(params) = {} /\ ~config_error /\ ~DryRun) =>
          ("temperature" \in Range(reported)
              <=> TemperatureBad(Winner(K_temperature, PyFloat(7))))


(***************************************************************************)
(* C6.  A session starts only if the effective configuration is valid;     *)
(* with any other configuration the process exits with a non-zero code     *)
(* before a session starts.                                                *)
(***************************************************************************)
C6_SessionOnlyIfValid ==
    /\ SessionStarted => ValidConfiguration
    /\ (pc # "start" /\ ~ValidConfiguration) =>
          pc = "exited" /\ exit_code > 0 /\ ~SessionStarted

(***************************************************************************)
(* C7.  A configuration error report names every violated constraint,      *)
(* whichever source supplied the invalid values.                           *)
(***************************************************************************)
C7_AllViolationsReported ==
    (pc = "exited" /\ reported # <<>> /\ caught = "" /\ ~config_error) =>
        Range(reported) = Violations

(***************************************************************************)
(* C8.  Under --dry-run the program validates the configuration, prints    *)
(* the summary and exits without a transcript file or a generation call;   *)
(* an invalid configuration is reported.                                   *)
(***************************************************************************)
C8_DryRunValidates ==
    (pc = "exited" /\ DryRun) =>
        /\ ~SessionStarted
        /\ (ValidConfiguration /\ ~config_error) => SummaryPrinted /\ reported = <<>>
        /\ ~ValidConfiguration => reported # <<>>

(***************************************************************************)
(* C9.  The exit code is 0 on success or dry run and 1 on a configuration  *)
(* error or an exception during the session; a session in which an         *)
(* exception was caught never ends with exit code 0.                       *)
(***************************************************************************)
C9_ExitCode ==
    pc = "exited" =>
        /\ (finalized > 0 /\ caught = "" /\ uncaught = "") => exit_code = 0
        /\ (DryRun /\ ValidConfiguration /\ ~config_error) => exit_code = 0
        /\ (~DryRun /\ (config_error \/ ~ValidConfiguration)) => exit_code = 1
        /\ caught # "" => exit_code = 1

(***************************************************************************)
(* C10.  A full run, a run that is no dry run, has a valid configuration   *)
(* and ends with exit code 0, leaves max_rounds turn blocks whose speakers *)
(* follow strict round robin over Pro, Con, Mediator; with max_rounds = 9  *)
(* these are the nine blocks Pro, Con, Mediator, three times over.         *)
(***************************************************************************)
C10_RoundRobinMaxTurns ==
    FullRun =>
        /\ RoundRobin(Speakers(file))
        /\ Len(Speakers(file)) = Winner(K_max_rounds, PyInt(10)).n
        /\ Winner(K_max_rounds, PyInt(10)) = PyInt(9) =>
              Speakers(file) = <<"Pro", "Con", "Mediator", "Pro", "Con", "Mediator",
                                 "Pro", "Con", "Mediator">>


\* the value the lower-priority sources select: environment, YAML, default
LowerWinner(k, default) ==
    CASE EnvSet(k) -> _convert_type(environ[EnvKey(k)])
      [] ~EnvSet(k) /\ YamlSet(k) -> _get_yaml_value(_config_data, k)
      [] OTHER -> default

(***************************************************************************)
(* C13.  An option the user did not supply never masks a lower-priority    *)
(* source: for every CLI-mapped key, --verbose included, the value         *)
(* resolved with the option omitted is the environment's, else the file's, *)
(* else the default.                                                       *)
(***************************************************************************)
C13_OmittedOptionNeverMasks ==
    SummaryPrinted =>
        /\ ~Supplied("api_key") =>
              summary.api_key = PyBool(Truthy(LowerWinner(K_api_key, PyNone)))
        /\ ~Supplied("model") => summary.model = LowerWinner(K_model, PyStr(T_gpt4))
        /\ ~Supplied("temperature") =>
              summary.temperature = LowerWinner(K_temperature, PyFloat(7))
        /\ ~Supplied("max_tokens") =>
              summary.max_tokens = LowerWinner(K_max_tokens, PyInt(2000))
        /\ ~Supplied("rounds") =>
              summary.max_rounds = LowerWinner(K_max_rounds, PyInt(10))
        /\ ~Supplied("language") =>
              summary.language = LowerWinner(K_language, PyStr(T_ja))
        /\ ~Supplied("verbose") =>
              summary.console_enabled
                  = PyBool(Truthy(LowerWinner(K_console_enabled, PyBool(TRUE))))


TrueTokens == {T_true, T_yes, T_on, <<"1">>}
FalseTokens == {T_false, T_no, T_off, <<"0">>}
\* what Python makes of the explored environment texts
Coerced(text) ==
    CASE text = <<"1">> -> PyBool(TRUE)
      [] text = <<"0">> -> PyBool(FALSE)
      [] text = <<"O", "N">> -> PyBool(TRUE)
      [] text = <<"N", "o">> -> PyBool(FALSE)
      [] text = T_false -> PyBool(FALSE)
      [] text = <<"3">> -> PyInt(3)
      [] text = <<"1", "0", "0">> -> PyInt(100)
      [] text = <<"1", "_", "0", "0", "0">> -> PyInt(1000)
      [] text = <<"5", ".", "0">> ->
            [t |-> "float", n |-> 5, e |-> 0, s |-> <<>>, d |-> <<>>]
      [] text = <<"2", ".", "0", "5">> ->
            [t |-> "float", n |-> 205, e |-> 2, s |-> <<>>, d |-> <<>>]
      [] text = <<"n", "a", "n">> ->
            [t |-> "float", n |-> 0, e |-> 0, s |-> T_nan, d |-> <<>>]
      [] text = <<"2", "e", "3", "0", "8">> ->
            [t |-> "float", n |-> 1, e |-> 0, s |-> T_inf, d |-> <<>>]
      [] text = <<"-", "1", "e", "-", "3", "2", "4">> ->
            [t |-> "float", n |-> 0, e |-> 0, s |-> <<>>, d |-> <<>>]
      [] text = <<" ", "4", "">> -> PyInt(4)
      [] OTHER -> PyStr(text)

(***************************************************************************)
(* C15.  Environment text is coerced in a fixed order: a case-insensitive  *)
(* true/yes/on/1 gives True and false/no/off/0 gives False; otherwise an   *)
(* integer parse gives an int; otherwise a float parse gives a float;      *)
(* otherwise the text is kept.  "1" and "0" always yield booleans.  The    *)
(* values the program takes from the environment are the coerced ones.     *)
(***************************************************************************)
C15_CoercionOrder ==
    /\ \A name \in DOMAIN environ :
          LET text == environ[name]
              r == _convert_type(text)
              token == Lower(text) \in TrueTokens \cup FalseTokens
          IN /\ Lower(text) \in TrueTokens => r = PyBool(TRUE)
             /\ Lower(text) \in FalseTokens => r = PyBool(FALSE)
             /\ (~token /\ IntParses(text)) => r.t = "int"
             /\ (~token /\ ~IntParses(text) /\ FloatParses(text)) => r.t = "float"
             /\ (~token /\ ~IntParses(text) /\ ~FloatParses(text)) => r = PyStr(text)
             /\ text \in {<<"1">>, <<"0">>} => r.t = "bool"
             /\ r = Coerced(text)
    /\ \A k \in FileKeys :
          EnvSet(k) => _get_env_value(environ, k) = Coerced(environ[EnvKey(k)])
    /\ SummaryPrinted =>
          /\ (~CliSet(K_temperature) /\ EnvSet(K_temperature)) =>
                summary.temperature = Coerced(environ[EnvKey(K_temperature)])
          /\ (~CliSet(K_max_tokens) /\ EnvSet(K_max_tokens)) =>
                summary.max_tokens = Coerced(environ[EnvKey(K_max_tokens)])
          /\ (~CliSet(K_max_rounds) /\ EnvSet(K_max_rounds)) =>
                summary.max_rounds = Coerced(environ[EnvKey(K_max_rounds)])

\* OPENAI_TEMPERATURE=1 was echoed as the boolean True
C15_Witness ==
    /\ pc = "exited"
    /\ EnvSet(K_temperature)
    /\ environ[EnvKey(K_temperature)] = <<"1">>
    /\ SummaryPrinted
    /\ summary.temperature = PyBool(TRUE)

=============================================================================
